---- MODULE Spec2Model ----
(***************************************************************************)
(* TeaTime: tee-time booking automation (reedipher/TeaTime).               *)
(*                                                                         *)
(* The module models, from the Python sources,                             *)
(*   - the date calculator         (src/utils/date_utils.py),              *)
(*   - the time parser             (parse_time, src/functions/booking.py), *)
(*   - the slot scanner            (find_tee_time_slots_on_tee_sheet),     *)
(*   - the booking executor and the retry loop (attempt_booking,           *)
(*     book_tee_time, navigate_to_booking_page),                           *)
(*   - the login / main run with its browser resources                     *)
(*     (src/functions/auth.py, src/functions/login_automation.py).         *)
(*                                                                         *)
(* Each component has its own specification (SpecDate, SpecTime, SpecScan, *)
(* SpecBook, SpecRun); the variables of the other components stay idle.    *)
(* Texts are sequences of one-character strings.  Python's None is the     *)
(* integer None (-1): every value it is compared with is a natural number. *)
(***************************************************************************)
EXTENDS Integers, Sequences, FiniteSets, TLC

VARIABLES
    \* ---- date calculator
    today,            \* datetime.now(), as a day number (0 = Monday 2024-01-01)
    target_day,       \* configured weekday name (booking.target_day)
    max_days_ahead,   \* system.booking_window_days
    date_result,      \* what calculate_target_day returned (NoDate = None)
    date_pc,
    available_dates,  \* what calculate_available_dates returned
    dates_pc,
    chosen,           \* the target date chosen when none is supplied
    \* ---- time parser
    time_m,           \* the time of day that is displayed, minutes since midnight
    raw_text,         \* a text that is not a rendering of a time of day
    time_out,         \* parse_time's result per display form
    time_fmt,         \* the format trial that returned it, per display form
    raw_out,          \* parse_time's result for raw_text
    \* ---- slot scanner
    page_forms,       \* the schedule-row forms of the page, in document order
    scan_view,        \* the view the page URL stands for: "sheet", "booking", "unknown"
    page_items,       \* the cards, buttons and clickable elements of the page
    scan_target,      \* target_time, "HH:MM"
    available_slots,  \* what find_tee_time_slots_on_tee_sheet returned
    scan_pc,
    \* ---- booking executor and retry loop
    dry_run,          \* book_tee_time's dry_run argument
    max_retries,      \* book_tee_time's max_retries argument
    attempt,          \* the loop variable of book_tee_time
    bk_pc,            \* position in book_tee_time and the functions it calls
    bk_result,        \* "pending", "true", "false" or "raised"
    slot,             \* kind of the candidate handed to attempt_booking
    ab_caller,        \* call site of attempt_booking: "best" or "simulated"
    ab_ret,           \* attempt_booking's return value
    counts,           \* what was done to the page so far
    hist,             \* what happened so far
    \* ---- login and main run
    credentials,      \* "missing_username", "missing_password", "sentinel", "real"
    run_pc,           \* position in main and login_to_club_caddie
    res,              \* the playwright driver and the browser
    login             \* what login did to the page, and what it returned

dateVars == <<today, target_day, max_days_ahead, date_result, date_pc,
              available_dates, dates_pc, chosen>>
timeVars == <<time_m, raw_text, time_out, time_fmt, raw_out>>
scanVars == <<page_forms, scan_view, page_items, scan_target, available_slots, scan_pc>>
bookVars == <<dry_run, max_retries, attempt, bk_pc, bk_result, slot, ab_caller,
              ab_ret, counts, hist>>
runVars == <<credentials, run_pc, res, login>>
vars == <<dateVars, timeVars, scanVars, bookVars, runVars>>

None == 0 - 1
Unset == 0 - 2

\* ------------------------------------------------------------------------
\* Bounds of the model
\* ------------------------------------------------------------------------
MaxWindow == 9          \* booking windows 0..MaxWindow days
MaxTodayOffset == 6     \* today ranges over MaxTodayOffset+1 consecutive days
MaxForms == 4           \* schedule-row forms on a scanned page
MaxRetries == 3         \* max_retries ranges over 0..MaxRetries
MaxFound == 2           \* candidates a scan of the retry loop returns
MaxItems == 2           \* cards, buttons, clickable elements on a booking page

\* ------------------------------------------------------------------------
\* Date calculator (src/utils/date_utils.py)
\* ------------------------------------------------------------------------
DaysPerWeek == 7

DayNames == <<"Monday", "Tuesday", "Wednesday", "Thursday", "Friday",
              "Saturday", "Sunday">>

\* DAY_MAP: day name -> weekday number (0 = Monday, 6 = Sunday)
DAY_MAP(name) == (CHOOSE i \in 1..Len(DayNames) : DayNames[i] = name) - 1

InDayMap(name) == \E i \in 1..Len(DayNames) : DayNames[i] = name

\* datetime.weekday(): day number 0 is a Monday
Weekday(d) == d % DaysPerWeek

\* The calendar of 2024 (a leap year that starts on a Monday): the days
\* before each month, used by strftime("%Y-%m-%d").
DaysBeforeMonth == <<0, 31, 60, 91, 121, 152, 182, 213, 244, 274, 305, 335, 366>>

\* strftime("%Y-%m-%d") of day number d of 2024, as <<year, month, day>>
FormatDate(d) ==
    LET mo == CHOOSE k \in 1..12 : DaysBeforeMonth[k] <= d /\ d < DaysBeforeMonth[k + 1]
    IN  <<2024, mo, d - DaysBeforeMonth[mo] + 1>>

NoDate == <<>>

\* days_until_target of calculate_next_available_date (lines 44-49)
DaysUntilTargetNoSkip(t, target_weekday) ==
    (target_weekday - Weekday(t)) % DaysPerWeek

DaysUntilTargetNoModulo(t, target_weekday) ==
    LET d == target_weekday - Weekday(t)
    IN  IF d = 0 THEN DaysPerWeek ELSE d

DaysUntilTarget(t, target_weekday) ==
    LET d == (target_weekday - Weekday(t)) % DaysPerWeek
    IN  IF d = 0 THEN DaysPerWeek ELSE d

\* the window test of calculate_next_available_date (line 57)
OutsideWindowInclusive(days_ahead, window) == days_ahead >= window

OutsideWindow(days_ahead, window) == days_ahead > window

calculate_next_available_date(t, target_weekday, window) ==
    LET next_target_date == t + DaysUntilTarget(t, target_weekday)
        days_ahead == next_target_date - t
    IN  IF OutsideWindow(days_ahead, window)
        THEN NoDate
        ELSE FormatDate(next_target_date)

calculate_target_day(t, day, window) ==
    IF InDayMap(day)
    THEN calculate_next_available_date(t, DAY_MAP(day), window)
    ELSE calculate_next_available_date(t, 6, window)

\* strftime("%A")
WeekdayName(d) == DayNames[Weekday(d) + 1]

\* range(max_days_ahead + 1) (line 120): the number of its values
RangeLenExclusive(window) == window

RangeLen(window) == window + 1

\* calculate_available_dates (lines 117-128): the list built by the loop,
\* the entry for i at position i + 1
calculate_available_dates(t, window) ==
    [k \in 1..RangeLen(window) |->
        [date |-> FormatDate(t + (k - 1)),
         weekday |-> WeekdayName(t + (k - 1)),
         days_ahead |-> k - 1]]

\* The target date when none is supplied: calculate_target_day, and when it
\* returns None the date of the last entry of calculate_available_dates
\* (booking.py lines 54-67; login_automation.py lines 59-72).  from records
\* which of the two gave the date.
NoChoice == [date |-> NoDate, from |-> "none"]

\* available_dates[-1]
FirstEntry(dates) == dates[1]

LastEntry(dates) == dates[Len(dates)]

choose_target_date(t, day, window) ==
    LET target_date == calculate_target_day(t, day, window)
    IN  IF target_date = NoDate
        THEN [date |-> LastEntry(calculate_available_dates(t, window)).date,
              from |-> "furthest"]
        ELSE [date |-> target_date, from |-> "target_day"]

\* The first day of the range of "today": Monday 2024-02-26, so that the
\* window crosses the end of February.
FirstToday == 8 * DaysPerWeek

ConfiguredDays == {DayNames[i] : i \in 1..Len(DayNames)} \cup {"Funday"}

IdleDate ==
    /\ today = FirstToday
    /\ target_day = "Sunday"
    /\ max_days_ahead = DaysPerWeek
    /\ date_result = NoDate
    /\ date_pc = "idle"
    /\ available_dates = <<>>
    /\ dates_pc = "idle"
    /\ chosen = NoChoice

StartDate ==
    /\ today \in FirstToday..(FirstToday + MaxTodayOffset)
    /\ target_day \in ConfiguredDays
    /\ max_days_ahead \in 0..MaxWindow
    /\ date_result = NoDate
    /\ date_pc = "start"
    /\ available_dates = <<>>
    /\ dates_pc = "start"
    /\ chosen = NoChoice

\* calculate_target_day(max_days_ahead = booking_window_days)
CalculateTargetDay ==
    /\ date_pc = "start"
    /\ date_result' = calculate_target_day(today, target_day, max_days_ahead)
    /\ date_pc' = "done"
    /\ UNCHANGED <<today, target_day, max_days_ahead, available_dates, dates_pc, chosen>>

\* calculate_available_dates(max_days_ahead = booking_window_days)
CalculateAvailableDates ==
    /\ dates_pc = "start"
    /\ available_dates' = calculate_available_dates(today, max_days_ahead)
    /\ dates_pc' = "done"
    /\ UNCHANGED <<today, target_day, max_days_ahead, date_result, date_pc, chosen>>

\* navigate_to_tee_sheet called without a target date (booking.py lines
\* 52-67), and main (login_automation.py lines 59-72)
ChooseTargetDate ==
    /\ chosen = NoChoice
    /\ chosen' = choose_target_date(today, target_day, max_days_ahead)
    /\ UNCHANGED <<today, target_day, max_days_ahead, date_result, date_pc,
                   available_dates, dates_pc>>

\* ------------------------------------------------------------------------
\* Time parser (parse_time, src/functions/booking.py)
\* ------------------------------------------------------------------------
MinutesPerDay == 24 * 60

Digits == <<"0", "1", "2", "3", "4", "5", "6", "7", "8", "9">>

IsDigit(c) == \E i \in 1..10 : Digits[i] = c

DigitVal(c) == (CHOOSE i \in 1..10 : Digits[i] = c) - 1

DigitChar(n) == Digits[n + 1]

IsSpace(c) == c \in {" ", "\t", "\n"}

AllDigits(s) == \A i \in 1..Len(s) : IsDigit(s[i])

\* int() of a token of one or two digits
NumVal(s) ==
    IF Len(s) = 1 THEN DigitVal(s[1]) ELSE 10 * DigitVal(s[1]) + DigitVal(s[2])

\* str.strip()
RECURSIVE LStrip(_)
LStrip(s) == IF s # <<>> /\ IsSpace(Head(s)) THEN LStrip(Tail(s)) ELSE s

RECURSIVE RStrip(_)
RStrip(s) ==
    IF s # <<>> /\ IsSpace(s[Len(s)]) THEN RStrip(SubSeq(s, 1, Len(s) - 1)) ELSE s

Strip(s) == RStrip(LStrip(s))

\* strptime directive %I: 1[0-2]|0[1-9]|[1-9]
ValidI(tok) ==
    /\ Len(tok) \in {1, 2}
    /\ AllDigits(tok)
    /\ NumVal(tok) \in 1..12

\* strptime directive %H: 2[0-3]|[0-1]\d|\d
ValidH(tok) ==
    /\ Len(tok) \in {1, 2}
    /\ AllDigits(tok)
    /\ NumVal(tok) \in 0..23

\* strptime directive %M: [0-5]\d|\d
ValidM(tok) ==
    /\ Len(tok) \in {1, 2}
    /\ AllDigits(tok)
    /\ NumVal(tok) \in 0..59

\* strptime directive %p (matched ignoring case)
IsAM(tok) == Len(tok) = 2 /\ tok[1] \in {"A", "a"} /\ tok[2] \in {"M", "m"}

IsPM(tok) == Len(tok) = 2 /\ tok[1] \in {"P", "p"} /\ tok[2] \in {"M", "m"}

FirstColon(s) ==
    IF \E i \in 1..Len(s) : s[i] = ":"
    THEN CHOOSE i \in 1..Len(s) : s[i] = ":" /\ \A j \in 1..(i - 1) : s[j] # ":"
    ELSE 0

\* the number of leading digits of s
RECURSIVE DigitRun(_)
DigitRun(s) == IF s # <<>> /\ IsDigit(Head(s)) THEN 1 + DigitRun(Tail(s)) ELSE 0

\* _strptime's hour for %I with %p: 12 AM is 0, 12 PM stays 12
Hour12NoWrap(h, pm) == IF pm THEN h + 12 ELSE h

Hour12(h, pm) ==
    IF pm THEN (IF h # 12 THEN h + 12 ELSE h)
    ELSE (IF h = 12 THEN 0 ELSE h)

\* datetime.strptime(s, "%I:%M %p") (spaced) and "%I:%M%p" (not spaced),
\* then hour * 60 + minute; None stands for ValueError.  A blank of the
\* format matches one or more whitespace characters.
Strptime12(s, spaced) ==
    LET c == FirstColon(s)
    IN  IF c = 0 \/ Len(s) < c + 3 THEN None
        ELSE LET hourTok == SubSeq(s, 1, c - 1)
                 ap == SubSeq(s, Len(s) - 1, Len(s))
                 mid == SubSeq(s, c + 1, Len(s) - 2)
                 mlen == DigitRun(mid)
                 minTok == SubSeq(mid, 1, mlen)
                 ws == SubSeq(mid, mlen + 1, Len(mid))
             IN  IF /\ ValidI(hourTok)
                    /\ ValidM(minTok)
                    /\ \A i \in 1..Len(ws) : IsSpace(ws[i])
                    /\ (IF spaced THEN Len(ws) >= 1 ELSE Len(ws) = 0)
                    /\ (IsAM(ap) \/ IsPM(ap))
                 THEN Hour12(NumVal(hourTok), IsPM(ap)) * 60 + NumVal(minTok)
                 ELSE None

\* datetime.strptime(s, "%H:%M"), then hour * 60 + minute
Strptime24Never(s) == None

Strptime24(s) ==
    LET c == FirstColon(s)
    IN  IF c = 0 THEN None
        ELSE LET hourTok == SubSeq(s, 1, c - 1)
                 minTok == SubSeq(s, c + 1, Len(s))
             IN  IF ValidH(hourTok) /\ ValidM(minTok)
                 THEN NumVal(hourTok) * 60 + NumVal(minTok)
                 ELSE None

\* re.match(r'^\d{1,2}\:\d{2}(AM|PM|am|pm)$', s)
MatchesSpecialFormat(s) ==
    LET c == FirstColon(s)
    IN  /\ c \in {2, 3}
        /\ Len(s) = c + 4
        /\ AllDigits(SubSeq(s, 1, c - 1))
        /\ AllDigits(SubSeq(s, c + 1, c + 2))
        /\ SubSeq(s, c + 3, c + 4) \in {<<"A", "M">>, <<"P", "M">>, <<"a", "m">>, <<"p", "m">>}

\* str.upper() of the two-letter period
UpperPeriod(p) == <<IF p[1] \in {"A", "a"} THEN "A" ELSE "P", "M">>

\* the four format trials of parse_time, in the order of the code
\* (lines 244-248, 251-255, 258-262, 265-275); None where a trial fails
FormatTrials(s) ==
    LET fixed == SubSeq(s, 1, Len(s) - 2) \o <<" ">> \o UpperPeriod(SubSeq(s, Len(s) - 1, Len(s)))
    IN  << Strptime12(s, TRUE),
           Strptime12(s, FALSE),
           Strptime24(s),
           IF MatchesSpecialFormat(s) THEN Strptime12(fixed, TRUE) ELSE None >>

\* the first trial that returns, 0 when none does
FirstMatch(trials) ==
    IF \E k \in 1..Len(trials) : trials[k] # None
    THEN CHOOSE k \in 1..Len(trials) :
             trials[k] # None /\ \A j \in 1..(k - 1) : trials[j] = None
    ELSE 0

\* parse_time: the formats in their order of trial, first match wins
parse_time(time_str) ==
    LET trials == FormatTrials(Strip(time_str))
        k == FirstMatch(trials)
    IN  IF k = 0 THEN None ELSE trials[k]

\* which of the return statements of parse_time is taken (0: line 278)
matched_format(time_str) == FirstMatch(FormatTrials(Strip(time_str)))

\* ---- the display forms of a time of day (spec 8, "H:MM AM/PM")
TwoDigits(n) == <<DigitChar(n \div 10), DigitChar(n % 10)>>

HourText12(m) ==
    LET h == (m \div 60) % 12
        h12 == IF h = 0 THEN 12 ELSE h
    IN  IF h12 >= 10 THEN TwoDigits(h12) ELSE <<DigitChar(h12)>>

Meridiem(m) == <<IF m \div 60 < 12 THEN "A" ELSE "P", "M">>

FormatSpaced(m) == HourText12(m) \o <<":">> \o TwoDigits(m % 60) \o <<" ">> \o Meridiem(m)

FormatUnspaced(m) == HourText12(m) \o <<":">> \o TwoDigits(m % 60) \o Meridiem(m)

Format24(m) == TwoDigits(m \div 60) \o <<":">> \o TwoDigits(m % 60)

Forms == {"spaced", "unspaced", "h24"}

Render(f, m) ==
    CASE f = "spaced" -> FormatSpaced(m)
      [] f = "unspaced" -> FormatUnspaced(m)
      [] f = "h24" -> Format24(m)

\* texts that are no time of day in any of the formats
JunkTexts ==
    { <<"n", "o", "t", " ", "a", " ", "t", "i", "m", "e">>,
      <<"1", "3", ":", "0", "0", " ", "P", "M">>,
      <<"0", ":", "3", "0", " ", "A", "M">>,
      <<"7", ":", "7", "5", " ", "A", "M">>,
      <<"2", "4", ":", "0", "0">>,
      <<"2", ":", "0", "0", " ", "P">>,
      <<"T", "B", "D">> }

IdleTime ==
    /\ time_m = None
    /\ raw_text = <<>>
    /\ time_out = [f \in Forms |-> Unset]
    /\ time_fmt = [f \in Forms |-> Unset]
    /\ raw_out = Unset

StartTime ==
    /\ \/ time_m \in 0..(MinutesPerDay - 1) /\ raw_text = <<>>
       \/ time_m = None /\ raw_text \in JunkTexts
    /\ time_out = [f \in Forms |-> Unset]
    /\ time_fmt = [f \in Forms |-> Unset]
    /\ raw_out = Unset

\* parse_time applied to the display form f of the time of day time_m
ParseDisplayed(f) ==
    /\ time_m # None
    /\ time_out[f] = Unset
    /\ time_out' = [time_out EXCEPT ![f] = parse_time(Render(f, time_m))]
    /\ time_fmt' = [time_fmt EXCEPT ![f] = matched_format(Render(f, time_m))]
    /\ UNCHANGED <<time_m, raw_text, raw_out>>

\* parse_time applied to a text that is no time of day
ParseRaw ==
    /\ time_m = None
    /\ raw_out = Unset
    /\ raw_out' = parse_time(raw_text)
    /\ UNCHANGED <<time_m, raw_text, time_out, time_fmt>>

\* ------------------------------------------------------------------------
\* Slot scanner (find_tee_time_slots_on_tee_sheet, schedule view)
\* ------------------------------------------------------------------------
Sentinel == 9999

\* Python's truth value of `minutes`: None and 0 are both false
Truthy(minutes) == minutes # None /\ minutes # 0

Abs(x) == IF x < 0 THEN 0 - x ELSE x

\* 'distance': abs(minutes - target_minutes) if minutes else 9999
Distance(minutes, target_minutes) ==
    IF Truthy(minutes) THEN Abs(minutes - target_minutes) ELSE Sentinel

\* A schedule-row form of the page:
\*   label    text of its ".slotTime b" element, NoLabel when there is none
\*   control  what the form holds as a control: "submit" (an element of
\*            type submit), "book_button" (a button whose text contains
\*            book or reserve), "other_button" (a button with another
\*            text) or "none"
\*   boxes    its .slot-box elements in document order, each with its state
\*            class ("Green", "Grey", "Event", or "Open" for none of them)
\*            and whether it carries text
NoLabel == <<"-">>

Box(cls, text) == [cls |-> cls, text |-> text]

\* bookButton || bookTextButton (lines 638-643)
HasBookControl(form) == form.control \in {"submit", "book_button"}

\* the filter over the .slot-box elements (lines 646-652)
BoxAvailable(box) ==
    /\ box.cls # "Green"
    /\ box.cls # "Grey"
    /\ box.cls # "Event"
    /\ ~box.text

\* availableSlots.length > 0 (line 654)
HasAvailableBox(form) == \E b \in 1..Len(form.boxes) : BoxAvailable(form.boxes[b])

\* is_bookable, the result of form.evaluate (lines 636-655)
IsBookableControlOnly(form) == HasBookControl(form)

IsBookable(form) == HasBookControl(form) \/ HasAvailableBox(form)

\* available_slots.append({...}) for form number i (lines 661-667)
Candidate(form, i, target_minutes) ==
    LET label == Strip(form.label)
        minutes == parse_time(label)
    IN  [time |-> label,
         minutes |-> minutes,
         distance |-> Distance(minutes, target_minutes),
         form_id |-> i]

\* the loop over the forms (lines 623-669): the candidates in document order
RECURSIVE ScanForms(_, _, _)
ScanForms(forms, i, target_minutes) ==
    IF i > Len(forms) THEN <<>>
    ELSE LET form == forms[i]
             rest == ScanForms(forms, i + 1, target_minutes)
         IN  IF form.label # NoLabel /\ IsBookable(form)
             THEN <<Candidate(form, i, target_minutes)>> \o rest
             ELSE rest

\* list.sort(key=lambda x: x['distance']): a stable sort, here by insertion
\* of each element after the elements that are not greater
RECURSIVE InsertStable(_, _)
InsertStable(sorted, x) ==
    IF sorted = <<>> THEN <<x>>
    ELSE IF Head(sorted).distance <= x.distance
         THEN <<Head(sorted)>> \o InsertStable(Tail(sorted), x)
         ELSE <<x>> \o sorted

RECURSIVE SortStable(_)
SortStable(slots) ==
    IF slots = <<>> THEN <<>>
    ELSE InsertStable(SortStable(SubSeq(slots, 1, Len(slots) - 1)), slots[Len(slots)])

SortSkipped(slots) == slots

SortByDistance(slots) == SortStable(slots)

\* target_minutes (lines 548-549)
TargetMinutes(target_time) == Strptime24(target_time)

\* find_tee_time_slots_on_tee_sheet on a schedule-view page
find_tee_time_slots_on_tee_sheet(forms, target_time) ==
    SortByDistance(ScanForms(forms, 1, TargetMinutes(target_time)))

\* ---- pages and targets the scanner is run on
Txt715 == <<"7", ":", "1", "5", " ", "A", "M">>
Txt720 == <<"7", ":", "2", "0", " ", "A", "M">>
Txt712 == <<"7", ":", "1", "2", " ", "A", "M">>
TxtMidnight == <<"1", "2", ":", "0", "0", " ", "A", "M">>
TxtBad == <<"1", "3", ":", "0", "0", " ", "P", "M">>

Txt700 == <<"7", ":", "0", "0", " ", "A", "M">>
Txt730 == <<"7", ":", "3", "0", " ", "A", "M">>

Row(label, control, boxes) == [label |-> label, control |-> control, boxes |-> boxes]

FormSet ==
    { Row(Txt715, "submit", <<>>),
      Row(Txt720, "book_button", <<Box("Open", FALSE)>>),
      Row(Txt712, "none", <<Box("Green", TRUE), Box("Open", FALSE)>>),
      Row(TxtMidnight, "submit", <<>>),
      Row(TxtBad, "submit", <<>>),
      Row(Txt715, "other_button", <<Box("Green", FALSE), Box("Grey", FALSE)>>),
      Row(NoLabel, "submit", <<Box("Open", FALSE)>>),
      Row(Txt700, "none", <<Box("Open", TRUE), Box("Event", FALSE)>>),
      Row(Txt730, "submit", <<Box("Open", FALSE)>>) }

Targets == { <<"0", "7", ":", "1", "5">>, <<"1", "4", ":", "0", "0">> }

Pages == UNION { [1..n -> FormSet] : n \in 0..MaxForms }

\* ---- the booking view (lines 671-787) and the unknown view (788-831)
\* A page of these views:
\*   cards    the time cards, each with the time text the pattern
\*            \d{1,2}:\d{2}\s*[AP]M finds in it (NoLabel: none) and the text
\*            kind of its first button or link ("none": it has none)
\*   buttons  all buttons and links, each with the kind of its text ("book",
\*            "reserve", "other") and the time text found in its parent
\*            containers (NoLabel: none)
\*   elems    all clickable elements, each with the time text found in its
\*            own text and whether that text has book/reserve/select/available
\*   wait_timeout  the waits for page elements (lines 564, 678) timed out
Card(time, button) == [time |-> time, button |-> button]

Button(text, near) == [text |-> text, near |-> near]

Elem(time, likely) == [time |-> time, likely |-> likely]

NoItems == [cards |-> <<>>, buttons |-> <<>>, elems |-> <<>>, wait_timeout |-> FALSE]

\* a candidate of these views; strategy and idx record which loop appended
\* it and from which element
ElementCandidate(time_text, target_minutes, is_button, strategy, idx) ==
    LET minutes == parse_time(time_text)
    IN  [time |-> time_text,
         minutes |-> minutes,
         distance |-> Distance(minutes, target_minutes),
         is_button |-> is_button,
         strategy |-> strategy,
         idx |-> idx]

HasBookingVerb(text) == text = "book" \/ text = "reserve"

\* strategy 1 (lines 688-716): time cards whose first button or link has a
\* booking verb
RECURSIVE ScanCards(_, _, _)
ScanCards(cards, i, target_minutes) ==
    IF i > Len(cards) THEN <<>>
    ELSE LET card == cards[i]
             rest == ScanCards(cards, i + 1, target_minutes)
         IN  IF card.time # NoLabel /\ card.button # "none" /\ HasBookingVerb(card.button)
             THEN <<ElementCandidate(card.time, target_minutes, TRUE, 1, i)>> \o rest
             ELSE rest

\* strategy 2 (lines 721-757): buttons with a booking verb and a time in a
\* parent container
RECURSIVE ScanButtons(_, _, _)
ScanButtons(buttons, i, target_minutes) ==
    IF i > Len(buttons) THEN <<>>
    ELSE LET button == buttons[i]
             rest == ScanButtons(buttons, i + 1, target_minutes)
         IN  IF HasBookingVerb(button.text) /\ button.near # NoLabel
             THEN <<ElementCandidate(button.near, target_minutes, TRUE, 2, i)>> \o rest
             ELSE rest

\* strategy 3 (lines 762-787): clickable elements with a time and a word
\* that signals bookability
RECURSIVE ScanElems(_, _, _)
ScanElems(elems, i, target_minutes) ==
    IF i > Len(elems) THEN <<>>
    ELSE LET elem == elems[i]
             rest == ScanElems(elems, i + 1, target_minutes)
         IN  IF elem.time # NoLabel /\ elem.likely
             THEN <<ElementCandidate(elem.time, target_minutes, FALSE, 3, i)>> \o rest
             ELSE rest

\* "if not available_slots" (lines 719, 760): whether the next strategy runs
AlwaysRunsNext(slots) == TRUE

RunsNext(slots) == slots = <<>>

\* the booking view: the strategies, nested (lines 688-787)
scan_booking_view(items, target_minutes) ==
    LET first == ScanCards(items.cards, 1, target_minutes)
        second == IF RunsNext(first)
                  THEN first \o ScanButtons(items.buttons, 1, target_minutes)
                  ELSE first
        third == IF RunsNext(first) /\ RunsNext(second)
                 THEN second \o ScanElems(items.elems, 1, target_minutes)
                 ELSE second
    IN  third

\* the unknown view (lines 792-831): buttons and links whose text contains
\* "book", with a time in a parent container
RECURSIVE ScanBookButtons(_, _, _)
ScanBookButtons(buttons, i, target_minutes) ==
    IF i > Len(buttons) THEN <<>>
    ELSE LET button == buttons[i]
             rest == ScanBookButtons(buttons, i + 1, target_minutes)
         IN  IF button.text = "book" /\ button.near # NoLabel
             THEN <<ElementCandidate(button.near, target_minutes, TRUE, 0, i)>> \o rest
             ELSE rest

\* find_tee_time_slots_on_tee_sheet: the view is told from the URL (lines
\* 569-572), the candidates of its branch are sorted (834-840).  A timeout
\* of the waits (563-567, 676-686) is logged and the scan goes on.
scan_page(view, forms, items, target_time) ==
    CASE view = "sheet" -> find_tee_time_slots_on_tee_sheet(forms, target_time)
      [] view = "booking" ->
            SortByDistance(scan_booking_view(items, TargetMinutes(target_time)))
      [] view = "unknown" ->
            SortByDistance(ScanBookButtons(items.buttons, 1, TargetMinutes(target_time)))

CardSet == { Card(Txt715, "book"), Card(Txt720, "other"), Card(NoLabel, "reserve") }

ButtonSet == { Button("book", Txt712), Button("reserve", TxtMidnight), Button("other", Txt720) }

ElemSet == { Elem(Txt730, TRUE), Elem(Txt700, FALSE), Elem(NoLabel, TRUE) }

SeqsUpTo(S, n) == UNION { [1..k -> S] : k \in 0..n }

BookingPages ==
    { [cards |-> c, buttons |-> b, elems |-> e, wait_timeout |-> w] :
        c \in SeqsUpTo(CardSet, MaxItems), b \in SeqsUpTo(ButtonSet, MaxItems),
        e \in SeqsUpTo(ElemSet, MaxItems), w \in BOOLEAN }

UnknownPages ==
    { [cards |-> <<>>, buttons |-> b, elems |-> <<>>, wait_timeout |-> FALSE] :
        b \in SeqsUpTo(ButtonSet, MaxItems) }

IdleScan ==
    /\ page_forms = <<>>
    /\ scan_view = "sheet"
    /\ page_items = NoItems
    /\ scan_target = <<"0", "7", ":", "1", "5">>
    /\ available_slots = <<>>
    /\ scan_pc = "idle"

StartScan ==
    /\ \/ /\ scan_view = "sheet"
          /\ page_forms \in Pages
          /\ page_items = NoItems
          /\ scan_target \in Targets
       \/ /\ scan_view = "booking"
          /\ page_forms = <<>>
          /\ page_items \in BookingPages
          /\ scan_target = <<"0", "7", ":", "1", "5">>
       \/ /\ scan_view = "unknown"
          /\ page_forms = <<>>
          /\ page_items \in UnknownPages
          /\ scan_target = <<"0", "7", ":", "1", "5">>
    /\ available_slots = <<>>
    /\ scan_pc = "start"

FindTeeTimeSlots ==
    /\ scan_pc = "start"
    /\ available_slots' = scan_page(scan_view, page_forms, page_items, scan_target)
    /\ scan_pc' = "done"
    /\ UNCHANGED <<page_forms, scan_view, page_items, scan_target>>

\* ------------------------------------------------------------------------
\* Booking executor and retry loop (book_tee_time, attempt_booking,
\* navigate_to_tee_sheet, navigate_to_booking_page; src/functions/booking.py)
\*
\* The page is not under the program's control: every page operation either
\* succeeds or raises, and every query finds something or nothing.  counts
\* records what the program did to the page:
\*   nav_sheet     page.goto of the schedule-view URL (navigate_to_tee_sheet)
\*   loop_navs     of these, the ones made by the loop of book_tee_time
\*   nav_booking   calls of navigate_to_booking_page
\*   scans         calls of find_tee_time_slots_on_tee_sheet
\*   ab_calls      calls of attempt_booking
\*   open_actions  submits/clicks of a candidate by attempt_booking
\*   final_clicks  clicks of the final booking submit control
\*   marks         elements/forms marked as "would submit" in dry run
\*   nbp_submits   booking forms submitted by navigate_to_booking_page
\* ------------------------------------------------------------------------
ZeroCounts ==
    [nav_sheet |-> 0, loop_navs |-> 0, nav_booking |-> 0, scans |-> 0,
     ab_calls |-> 0, open_actions |-> 0, final_clicks |-> 0, marks |-> 0,
     nbp_submits |-> 0]

\* hist records what happened:
\*   exc_seen      an exception was raised somewhere
\*   slots_seen    a scan returned candidates
\*   last_nav      where the page was sent last
\*   sim_used      the placeholder candidate of the dry run was made
\*   form_reached  attempt_booking reached the booking form or modal
\*   nbp_tried     the strategies the running call of navigate_to_booking_page
\*                 has attempted: "direct", "alternate", "link", "form"
\*   nbp_ret       what that call returned: "none" (not returned), "true",
\*                 "false"
\*   nav_load      the page load of the last call of navigate_to_tee_sheet:
\*                 "none" (no call yet), "ok", "failed"
\*   scan_exc      the last call of find_tee_time_slots_on_tee_sheet: "none"
\*                 (nothing raised), "caught" (an exception was raised and
\*                 the call returned), "propagated" (the call raised)
\*   found         the number of candidates the scan of this iteration
\*                 returned
\*   picked        the position, in that list, of the candidate handed to
\*                 attempt_booking (0: none, or the placeholder)
\*   ab_end        how the last call of attempt_booking in this iteration
\*                 ended: "none", "marked" (dry run), "detached", "no_form",
\*                 "no_button", "confirmed", "unconfirmed" (final control
\*                 clicked, with and without a confirmation marker),
\*                 "exception"
NoHistory ==
    [exc_seen |-> FALSE, slots_seen |-> FALSE, last_nav |-> "none",
     sim_used |-> FALSE, form_reached |-> FALSE, nbp_tried |-> {},
     nbp_ret |-> "none", nav_load |-> "none", scan_exc |-> "none",
     found |-> 0, picked |-> 0, ab_end |-> "none"]

\* the names of an iteration are bound anew by the next one
Fresh(h) == [h EXCEPT !.found = 0, !.picked = 0, !.ab_end = "none"]

Bump(field) == counts' = [counts EXCEPT ![field] = @ + 1]

Raised == hist' = [hist EXCEPT !.exc_seen = TRUE]

IdleBook ==
    /\ dry_run = TRUE
    /\ max_retries = 0
    /\ attempt = 0
    /\ bk_pc = "idle"
    /\ bk_result = "pending"
    /\ slot = "none"
    /\ ab_caller = "none"
    /\ ab_ret = FALSE
    /\ counts = ZeroCounts
    /\ hist = NoHistory

StartBook ==
    /\ dry_run \in BOOLEAN
    /\ max_retries \in 0..MaxRetries
    /\ attempt = 0
    /\ bk_pc = "loop"
    /\ bk_result = "pending"
    /\ slot = "none"
    /\ ab_caller = "none"
    /\ ab_ret = FALSE
    /\ counts = ZeroCounts
    /\ hist = NoHistory

\* for attempt in range(max_retries + 1) (line 874)
LoopContinuesShort(a) == a < max_retries

LoopContinues(a) == a < max_retries + 1

\* the dry_run parameter as attempt_booking reads it (lines 426, 446, 485, 495)
AttemptDryRunIgnored == FALSE

AttemptDryRun == dry_run

Return(r) ==
    /\ bk_pc' = "returned"
    /\ bk_result' = r

\* the next iteration of the for loop
NextIterationSkipsNavigation ==
    /\ attempt' = attempt + 1
    /\ bk_pc' = (IF attempt < max_retries THEN "scan" ELSE "loop")

NextIteration ==
    /\ attempt' = attempt + 1
    /\ bk_pc' = "loop"

\* line 874, and line 952 when the loop is exhausted
LoopHead ==
    /\ bk_pc = "loop"
    /\ IF LoopContinues(attempt)
       THEN bk_pc' = "nav" /\ UNCHANGED bk_result
       ELSE Return("false")
    /\ UNCHANGED <<dry_run, max_retries, attempt, slot, ab_caller, ab_ret, counts, hist>>

\* navigate_to_tee_sheet (lines 69-84): page.goto and the wait, then the
\* tee_sheet screenshot, all in one try block whose handler takes a
\* screenshot and re-raises (when that screenshot raises, its exception
\* leaves the function instead).  load_ok: goto and the wait succeeded;
\* shot_ok: so did the tee_sheet screenshot.
navigate_to_tee_sheet_swallows(load_ok, shot_ok) == "returned"

navigate_to_tee_sheet(load_ok, shot_ok) ==
    IF load_ok /\ shot_ok THEN "returned" ELSE "raised"

LoadState(load_ok) == IF load_ok THEN "ok" ELSE "failed"

\* lines 880-884: navigate_to_tee_sheet(page, target_date), then a screenshot
NavigateToTeeSheet ==
    /\ bk_pc = "nav"
    /\ counts' = [counts EXCEPT !.nav_sheet = @ + 1, !.loop_navs = @ + 1]
    /\ \E load_ok, shot_ok \in BOOLEAN :
          IF navigate_to_tee_sheet(load_ok, shot_ok) = "returned"
          THEN \/ /\ bk_pc' = "scan"
                  /\ hist' = [hist EXCEPT !.last_nav = "sheet",
                                          !.nav_load = LoadState(load_ok)]
               \/ \* the screenshot of line 881 raises
                  /\ bk_pc' = "handler"
                  /\ hist' = [hist EXCEPT !.exc_seen = TRUE, !.last_nav = "sheet",
                                          !.nav_load = LoadState(load_ok)]
          ELSE /\ bk_pc' = "handler"
               /\ hist' = [hist EXCEPT !.exc_seen = TRUE, !.last_nav = "sheet",
                                       !.nav_load = LoadState(load_ok)]
    /\ UNCHANGED <<dry_run, max_retries, attempt, bk_result, slot, ab_caller, ab_ret>>

\* best_slot = available_slots[0] (line 892): its position in a list of n
BestIndexLast(n) == n

BestIndex(n) == 1

\* line 888: find_tee_time_slots_on_tee_sheet(page, target_time).  On the
\* schedule view the candidates are forms, on the other views elements.
ScanPage ==
    /\ bk_pc = "scan"
    /\ \/ \* a list of n candidates; best_slot = available_slots[0] is
          \* handed to attempt_booking (lines 890-896)
          \E kind \in {"form", "element"}, n \in 1..MaxFound :
             /\ slot' = kind
             /\ bk_pc' = "ab_entry"
             /\ ab_caller' = "best"
             /\ counts' = [counts EXCEPT !.scans = @ + 1, !.ab_calls = @ + 1]
             /\ hist' = [hist EXCEPT !.slots_seen = TRUE, !.scan_exc = "none",
                                     !.found = n, !.picked = BestIndex(n)]
       \/ \* an empty list (line 843)
          /\ bk_pc' = "noslots"
          /\ Bump("scans")
          /\ hist' = [hist EXCEPT !.scan_exc = "none"]
          /\ UNCHANGED <<slot, ab_caller>>
       \/ \* an exception inside the try block (616-843): caught, an empty
          \* list is returned (845-848)
          /\ bk_pc' = "noslots"
          /\ Bump("scans")
          /\ hist' = [hist EXCEPT !.exc_seen = TRUE, !.scan_exc = "caught"]
          /\ UNCHANGED <<slot, ab_caller>>
       \/ \* an exception inside the try block, and the screenshot of its
          \* handler (line 847) raises, or an exception before the try
          \* block (the screenshot of 552, page.evaluate of 577): the call
          \* raises
          /\ bk_pc' = "handler"
          /\ Bump("scans")
          /\ hist' = [hist EXCEPT !.exc_seen = TRUE, !.scan_exc = "propagated"]
          /\ UNCHANGED <<slot, ab_caller>>
    /\ UNCHANGED <<dry_run, max_retries, attempt, bk_result, ab_ret>>

\* ---- attempt_booking (lines 399-534)
AbReturn(r) ==
    /\ ab_ret' = r
    /\ bk_pc' = "ab_returned"

Ended(how) == [hist EXCEPT !.ab_end = how]

\* lines 412-417: the screenshot before the try block
AbEntry ==
    /\ bk_pc = "ab_entry"
    /\ \/ bk_pc' = (IF slot = "element" THEN "ab_element" ELSE "ab_form") /\ UNCHANGED hist
       \/ bk_pc' = "handler" /\ Raised
    /\ UNCHANGED <<dry_run, max_retries, attempt, bk_result, slot, ab_caller, ab_ret, counts>>

\* lines 421-436: the candidate is a schedule-view form
AbForm ==
    /\ bk_pc = "ab_form"
    /\ \/ /\ AttemptDryRun
          /\ Bump("marks")
          /\ AbReturn(TRUE)
          /\ hist' = Ended("marked")
       \/ /\ ~AttemptDryRun
          /\ Bump("open_actions")
          /\ bk_pc' = "ab_after"
          /\ UNCHANGED <<ab_ret, hist>>
       \/ \* page.evaluate raises
          /\ bk_pc' = "ab_except"
          /\ Raised
          /\ UNCHANGED <<ab_ret, counts>>
    /\ UNCHANGED <<dry_run, max_retries, attempt, bk_result, slot, ab_caller>>

\* lines 438-462: the candidate is an element
AbElement ==
    /\ bk_pc = "ab_element"
    /\ \/ /\ AttemptDryRun
          /\ Bump("marks")
          /\ AbReturn(TRUE)
          /\ hist' = Ended("marked")
       \/ /\ ~AttemptDryRun
          /\ Bump("open_actions")
          /\ bk_pc' = "ab_after"
          /\ UNCHANGED <<ab_ret, hist>>
       \/ \* the element is detached, or the highlight/click raises (460-462)
          /\ AbReturn(FALSE)
          /\ hist' = [hist EXCEPT !.exc_seen = TRUE, !.ab_end = "detached"]
          /\ UNCHANGED counts
    /\ UNCHANGED <<dry_run, max_retries, attempt, bk_result, slot, ab_caller>>

\* lines 465-472 and 527-529: wait for the booking form or modal
AbAfter ==
    /\ bk_pc = "ab_after"
    /\ \/ /\ bk_pc' = "ab_player"
          /\ hist' = [hist EXCEPT !.form_reached = TRUE]
          /\ UNCHANGED ab_ret
       \/ AbReturn(FALSE) /\ hist' = Ended("no_form")
       \/ bk_pc' = "ab_except" /\ Raised /\ UNCHANGED ab_ret
    /\ UNCHANGED <<dry_run, max_retries, attempt, bk_result, slot, ab_caller, counts>>

\* lines 477-497: the party-size control, then the dry-run stop
AbPlayer ==
    /\ bk_pc = "ab_player"
    /\ \/ IF AttemptDryRun
          THEN AbReturn(TRUE) /\ hist' = Ended("marked")
          ELSE bk_pc' = "ab_final" /\ UNCHANGED <<ab_ret, hist>>
       \/ \* get_property, select_option or fill raises
          bk_pc' = "ab_except" /\ Raised /\ UNCHANGED ab_ret
    /\ UNCHANGED <<dry_run, max_retries, attempt, bk_result, slot, ab_caller, counts>>

\* lines 500-511 and 524-526: find and click the final booking button
AbFinal ==
    /\ bk_pc = "ab_final"
    /\ \/ Bump("final_clicks") /\ bk_pc' = "ab_confirm" /\ UNCHANGED <<ab_ret, hist>>
       \/ AbReturn(FALSE) /\ hist' = Ended("no_button") /\ UNCHANGED counts
       \/ bk_pc' = "ab_except" /\ Raised /\ UNCHANGED <<ab_ret, counts>>
    /\ UNCHANGED <<dry_run, max_retries, attempt, bk_result, slot, ab_caller>>

\* lines 516-523: the return value after the click, given whether a
\* confirmation marker was found
ConfirmationRequired(marker) == marker

ConfirmationResult(marker) == TRUE

\* lines 512-523: after the click, with or without a confirmation marker
AbConfirm ==
    /\ bk_pc = "ab_confirm"
    /\ \/ \E marker \in BOOLEAN :
             /\ AbReturn(ConfirmationResult(marker))
             /\ hist' = Ended(IF marker THEN "confirmed" ELSE "unconfirmed")
       \/ \* the wait, the screenshot or the query after the click raises
          bk_pc' = "ab_except" /\ Raised /\ UNCHANGED ab_ret
    /\ UNCHANGED <<dry_run, max_retries, attempt, bk_result, slot, ab_caller, counts>>

\* lines 531-534: the handler of attempt_booking; its screenshot may raise
AbExcept ==
    /\ bk_pc = "ab_except"
    /\ \/ AbReturn(FALSE) /\ hist' = Ended("exception")
       \/ bk_pc' = "handler" /\ UNCHANGED <<ab_ret, hist>>
    /\ UNCHANGED <<dry_run, max_retries, attempt, bk_result, slot, ab_caller, counts>>

\* lines 896-899 and 922-925: back in book_tee_time
AfterAttempt ==
    /\ bk_pc = "ab_returned"
    /\ IF ab_ret THEN Return("true") /\ UNCHANGED <<attempt, hist>>
       ELSE IF ab_caller = "best"
            THEN NextIteration /\ hist' = Fresh(hist) /\ UNCHANGED bk_result
            ELSE bk_pc' = "retry_or_fail" /\ UNCHANGED <<attempt, bk_result, hist>>
    /\ UNCHANGED <<dry_run, max_retries, slot, ab_caller, ab_ret, counts>>

\* line 903: the condition under which the placeholder candidate is made
SimulateOnAnyAttempt(dry, a) == dry

SimulateSlot(dry, a) == dry /\ a = max_retries

\* lines 901-925: no slots; on the last attempt of a dry run a placeholder
\* candidate is made from a schedule-view form, if the page has one
NoSlots ==
    /\ bk_pc = "noslots"
    /\ IF SimulateSlot(dry_run, attempt)
       THEN \/ /\ slot' = "simulated"
               /\ ab_caller' = "simulated"
               /\ bk_pc' = "ab_entry"
               /\ Bump("ab_calls")
               /\ hist' = [hist EXCEPT !.sim_used = TRUE]
            \/ bk_pc' = "retry_or_fail" /\ UNCHANGED <<slot, ab_caller, counts, hist>>
            \/ bk_pc' = "handler" /\ Raised /\ UNCHANGED <<slot, ab_caller, counts>>
       ELSE bk_pc' = "retry_or_fail" /\ UNCHANGED <<slot, ab_caller, counts, hist>>
    /\ UNCHANGED <<dry_run, max_retries, attempt, bk_result, ab_ret>>

\* lines 927-934
RetryOrFail ==
    /\ bk_pc = "retry_or_fail"
    /\ IF attempt < max_retries
       THEN bk_pc' = "nbp_direct" /\ Bump("nav_booking") /\ UNCHANGED bk_result
       ELSE Return("false") /\ UNCHANGED counts
    /\ UNCHANGED <<dry_run, max_retries, attempt, slot, ab_caller, ab_ret, hist>>

\* ---- navigate_to_booking_page (lines 86-227); its result is not used
NbpTry(strategy) == [hist EXCEPT !.nbp_tried = @ \cup {strategy}]

NbpReturn(h, r) ==
    /\ bk_pc' = "nbp_returned"
    /\ hist' = [h EXCEPT !.nbp_ret = r]

\* lines 103-162: the direct booking URL.  One try block (103-177) holds
\* both URLs: an exception here goes to line 176 and on to the fallback.
NbpDirect ==
    /\ bk_pc = "nbp_direct"
    /\ \/ NbpReturn([NbpTry("direct") EXCEPT !.last_nav = "booking"], "true")
       \/ /\ bk_pc' = "nbp_alternate"
          /\ hist' = [NbpTry("direct") EXCEPT !.last_nav = "other"]
       \/ /\ bk_pc' = "nbp_fallback"
          /\ hist' = [NbpTry("direct") EXCEPT !.exc_seen = TRUE, !.last_nav = "other"]
    /\ UNCHANGED <<dry_run, max_retries, attempt, bk_result, slot, ab_caller, ab_ret, counts>>

\* lines 164-177: the alternate booking URL
NbpAlternate ==
    /\ bk_pc = "nbp_alternate"
    /\ \/ NbpReturn([NbpTry("alternate") EXCEPT !.last_nav = "booking"], "true")
       \/ /\ bk_pc' = "nbp_fallback"
          /\ hist' = [NbpTry("alternate") EXCEPT !.last_nav = "other"]
       \/ /\ bk_pc' = "nbp_fallback"
          /\ hist' = [NbpTry("alternate") EXCEPT !.exc_seen = TRUE, !.last_nav = "other"]
    /\ UNCHANGED <<dry_run, max_retries, attempt, bk_result, slot, ab_caller, ab_ret, counts>>

\* lines 180-183: fall back to the schedule view; navigate_to_tee_sheet
\* re-raises a failed load, which goes to line 223
NbpFallback ==
    /\ bk_pc = "nbp_fallback"
    /\ Bump("nav_sheet")
    /\ \E load_ok, shot_ok \in BOOLEAN :
          IF navigate_to_tee_sheet(load_ok, shot_ok) = "returned"
          THEN \/ /\ bk_pc' = "nbp_link"
                  /\ hist' = [hist EXCEPT !.last_nav = "sheet",
                                          !.nav_load = LoadState(load_ok)]
               \/ \* the screenshot of line 183 raises
                  /\ bk_pc' = "nbp_except"
                  /\ hist' = [hist EXCEPT !.exc_seen = TRUE, !.last_nav = "sheet",
                                          !.nav_load = LoadState(load_ok)]
          ELSE /\ bk_pc' = "nbp_except"
               /\ hist' = [hist EXCEPT !.exc_seen = TRUE, !.last_nav = "sheet",
                                       !.nav_load = LoadState(load_ok)]
    /\ UNCHANGED <<dry_run, max_retries, attempt, bk_result, slot, ab_caller, ab_ret>>

\* lines 186-203: the "Book a Member Tee Time" link
NbpLink ==
    /\ bk_pc = "nbp_link"
    /\ \/ NbpReturn([NbpTry("link") EXCEPT !.last_nav = "booking"], "true")
       \/ bk_pc' = "nbp_forms" /\ hist' = NbpTry("link")
       \/ bk_pc' = "nbp_except" /\ hist' = [NbpTry("link") EXCEPT !.exc_seen = TRUE]
    /\ UNCHANGED <<dry_run, max_retries, attempt, bk_result, slot, ab_caller, ab_ret, counts>>

\* lines 205-222 and 227: submit the first booking form of the schedule
\* view; without such a form the function returns False
NbpForms ==
    /\ bk_pc = "nbp_forms"
    /\ \/ /\ Bump("nbp_submits")
          /\ NbpReturn([NbpTry("form") EXCEPT !.last_nav = "booking"], "true")
       \/ NbpReturn(NbpTry("form"), "false") /\ UNCHANGED counts
       \/ /\ bk_pc' = "nbp_except"
          /\ hist' = [NbpTry("form") EXCEPT !.exc_seen = TRUE]
          /\ UNCHANGED counts
    /\ UNCHANGED <<dry_run, max_retries, attempt, bk_result, slot, ab_caller, ab_ret>>

\* lines 223-227: the handler of navigate_to_booking_page, then return
\* False; the handler's screenshot may raise
NbpExcept ==
    /\ bk_pc = "nbp_except"
    /\ \/ NbpReturn(hist, "false")
       \/ bk_pc' = "handler" /\ hist' = [hist EXCEPT !.nbp_tried = {}]
    /\ UNCHANGED <<dry_run, max_retries, attempt, bk_result, slot, ab_caller, ab_ret, counts>>

\* line 931, then the next iteration
AfterNbp ==
    /\ bk_pc = "nbp_returned"
    /\ NextIteration
    /\ hist' = Fresh([hist EXCEPT !.nbp_tried = {}, !.nbp_ret = "none"])
    /\ UNCHANGED <<dry_run, max_retries, bk_result, slot, ab_caller, ab_ret, counts>>

\* lines 936-950: the handler of book_tee_time
Handler ==
    /\ bk_pc = "handler"
    /\ \/ \* take_detailed_screenshot raises inside the handler (line 938)
          Return("raised") /\ UNCHANGED <<attempt, hist>>
       \/ /\ attempt < max_retries
          /\ NextIteration
          /\ hist' = Fresh([hist EXCEPT !.last_nav = "root"])
          /\ UNCHANGED bk_result
       \/ /\ ~(attempt < max_retries)
          /\ Return("false")
          /\ UNCHANGED <<attempt, hist>>
    /\ UNCHANGED <<dry_run, max_retries, slot, ab_caller, ab_ret, counts>>

\* ------------------------------------------------------------------------
\* Login and main run (src/functions/auth.py, src/functions/login_automation.py)
\*
\* res.pw is the playwright driver ("none", "started", "stopped"), res.browser
\* the browser ("none", "open", "closed").  browser.close() and p.stop() are
\* taken not to raise; every page operation may.
\* ------------------------------------------------------------------------
NoResources == [pw |-> "none", browser |-> "none"]

\* login: what login_to_club_caddie did and saw
\*   page         context.new_page() returned a page
\*   navigated, entered, submitted   the steps on the login page
\*   idle_timeout the network-idle wait timed out
\*   checked      the success check after the submit was reached with a pair
\*                other than the sentinel; then url_ok (the URL does not
\*                contain "login"), marker (an account/logout/welcome/user
\*                element exists) and form_absent (no #Username, #Password
\*                or #signIn element) say what the page showed
\*   ret          "pending", "session" or "none"
NoLogin ==
    [page |-> FALSE, navigated |-> FALSE, entered |-> FALSE, submitted |-> FALSE,
     idle_timeout |-> FALSE, checked |-> FALSE, url_ok |-> FALSE,
     marker |-> FALSE, form_absent |-> FALSE, ret |-> "pending"]

CredentialKinds == {"missing_username", "missing_password", "sentinel", "real"}

IdleRun ==
    /\ credentials = "sentinel"
    /\ run_pc = "idle"
    /\ res = NoResources
    /\ login = NoLogin

StartRun ==
    /\ credentials \in CredentialKinds
    /\ run_pc = "login_start"
    /\ res = NoResources
    /\ login = NoLogin

\* return None, None, None
LoginFails == login' = [login EXCEPT !.ret = "none"]

\* auth.py line 29: not username or not password
MissingUsernameOnly(c) == c = "missing_username"

CredentialMissing(c) == c = "missing_username" \/ c = "missing_password"

\* auth.py lines 22-36: the credential check, then async_playwright().start()
LoginStart ==
    /\ run_pc = "login_start"
    /\ IF CredentialMissing(credentials)
       THEN LoginFails /\ run_pc' = "main_check" /\ UNCHANGED res
       ELSE /\ res' = [res EXCEPT !.pw = "started"]
            /\ run_pc' = "launch"
            /\ UNCHANGED login
    /\ UNCHANGED credentials

\* auth.py line 39: p.chromium.launch
Launch ==
    /\ run_pc = "launch"
    /\ \/ res' = [res EXCEPT !.browser = "open"] /\ run_pc' = "context"
       \/ run_pc' = "login_outer" /\ UNCHANGED res
    /\ UNCHANGED <<credentials, login>>

\* auth.py lines 40-41: browser.new_context, context.new_page
NewContext ==
    /\ run_pc = "context"
    /\ \/ run_pc' = "goto_login" /\ login' = [login EXCEPT !.page = TRUE]
       \/ run_pc' = "login_outer" /\ UNCHANGED login
    /\ UNCHANGED <<credentials, res>>

\* auth.py line 45: page.goto(login URL)
GotoLogin ==
    /\ run_pc = "goto_login"
    /\ \/ login' = [login EXCEPT !.navigated = TRUE] /\ run_pc' = "wait_username"
       \/ run_pc' = "login_handler" /\ UNCHANGED login
    /\ UNCHANGED <<credentials, res>>

\* auth.py line 48: wait for the username field to be visible
WaitUsername ==
    /\ run_pc = "wait_username"
    /\ \/ run_pc' = "fill"
       \/ run_pc' = "login_handler"
    /\ UNCHANGED <<credentials, res, login>>

\* auth.py lines 51-56: fill the credentials and click sign in
FillAndSubmit ==
    /\ run_pc = "fill"
    /\ \/ login' = [login EXCEPT !.entered = TRUE, !.submitted = TRUE] /\ run_pc' = "settle"
       \/ login' = [login EXCEPT !.entered = TRUE] /\ run_pc' = "login_handler"
    /\ UNCHANGED <<credentials, res>>

\* auth.py lines 59-74: the network-idle wait (a timeout is swallowed), then
\* the after_login screenshot
Settle ==
    /\ run_pc = "settle"
    /\ \E timed_out \in BOOLEAN :
          login' = [login EXCEPT !.idle_timeout = timed_out]
    /\ \/ run_pc' = "check"
       \/ run_pc' = "login_handler"
    /\ UNCHANGED <<credentials, res>>

\* the names auth.py binds at module level (lines 2-8): asyncio,
\* async_playwright, logging, take_screenshot, get_credentials.  os is not
\* among them, so evaluating os.getenv (line 82) raises NameError.
OsImported == FALSE

\* lines 88-112: login_successful.  The two element queries share one try
\* block; when a query raises, only what was set before it counts.
login_successful(url_ok, marker, form_absent, query_raises) ==
    \/ url_ok
    \/ ~query_raises /\ (marker \/ form_absent)

\* auth.py lines 77-123: the sentinel pair returns the session (77-79); for
\* any other pair line 82 is evaluated first, and only then the success
\* check (88-123) with its two outcomes
CheckLogin ==
    /\ run_pc = "check"
    /\ IF credentials = "sentinel"
       THEN /\ login' = [login EXCEPT !.ret = "session"]
            /\ run_pc' = "main_check"
            /\ UNCHANGED res
       ELSE \E u, mk, fa, qr \in BOOLEAN :
              LET seen == [login EXCEPT !.checked = TRUE, !.url_ok = u,
                                        !.marker = mk, !.form_absent = fa]
              IN  IF ~OsImported
                  THEN /\ login' = seen
                       /\ run_pc' = "login_handler"
                       /\ UNCHANGED res
                  ELSE IF login_successful(u, mk, fa, qr)
                       THEN /\ login' = [seen EXCEPT !.ret = "session"]
                            /\ run_pc' = "main_check"
                            /\ UNCHANGED res
                       ELSE \/ /\ login' = [seen EXCEPT !.ret = "none"]
                               /\ res' = [res EXCEPT !.browser = "closed", !.pw = "stopped"]
                               /\ run_pc' = "main_check"
                            \/ \* the login_failed screenshot raises (line 120)
                               /\ login' = seen
                               /\ run_pc' = "login_handler"
                               /\ UNCHANGED res
    /\ UNCHANGED credentials

\* auth.py lines 125-130: the inner handler; its screenshot may raise
LoginHandler ==
    /\ run_pc = "login_handler"
    /\ \/ /\ res' = [res EXCEPT !.browser = "closed", !.pw = "stopped"]
          /\ LoginFails
          /\ run_pc' = "main_check"
       \/ run_pc' = "login_outer" /\ UNCHANGED <<res, login>>
    /\ UNCHANGED credentials

\* auth.py lines 131-134: the outer handler
LoginOuter ==
    /\ run_pc = "login_outer"
    /\ res' = [res EXCEPT !.pw = "stopped"]
    /\ LoginFails
    /\ run_pc' = "main_check"
    /\ UNCHANGED credentials

\* login_automation.py lines 49-51 and 137-138
MainCheckLogin ==
    /\ run_pc = "main_check"
    /\ run_pc' = (IF login.ret = "session" THEN "main_pre" ELSE "returned")
    /\ UNCHANGED <<credentials, res, login>>

\* login_automation.py lines 52-89: dates, screenshot, call of book_tee_time
MainBeforeBooking ==
    /\ run_pc = "main_pre"
    /\ bk_pc = "idle"
    /\ \/ run_pc' = "booking" /\ bk_pc' = "loop"
       \/ run_pc' = "main_except" /\ UNCHANGED bk_pc
    /\ UNCHANGED <<credentials, res, login, dry_run, max_retries, attempt, bk_result,
                   slot, ab_caller, ab_ret, counts, hist>>

\* login_automation.py lines 82-120: book_tee_time returned or raised; the
\* wait and the run report
MainAfterBooking ==
    /\ run_pc = "booking"
    /\ bk_pc = "returned"
    /\ IF bk_result = "raised"
       THEN run_pc' = "main_except"
       ELSE \/ run_pc' = "main_finally"
            \/ run_pc' = "main_except"
    /\ UNCHANGED <<credentials, res, login, bookVars>>

\* login_automation.py lines 122-130: the screenshot's failure is swallowed
MainExcept ==
    /\ run_pc = "main_except"
    /\ run_pc' = "main_finally"
    /\ UNCHANGED <<credentials, res, login>>

\* login_automation.py lines 132-136
MainFinally ==
    /\ run_pc = "main_finally"
    /\ res' = [res EXCEPT !.browser = "closed", !.pw = "stopped"]
    /\ run_pc' = "returned"
    /\ UNCHANGED <<credentials, login>>

\* ------------------------------------------------------------------------
\* Specifications
\* ------------------------------------------------------------------------
NextDate ==
    \/ CalculateTargetDay /\ UNCHANGED <<timeVars, scanVars, bookVars, runVars>>
    \/ CalculateAvailableDates /\ UNCHANGED <<timeVars, scanVars, bookVars, runVars>>
    \/ ChooseTargetDate /\ UNCHANGED <<timeVars, scanVars, bookVars, runVars>>

InitDate == StartDate /\ IdleTime /\ IdleScan /\ IdleBook /\ IdleRun

SpecDate == InitDate /\ [][NextDate]_vars

NextTime ==
    \/ (\E f \in Forms : ParseDisplayed(f)) /\ UNCHANGED <<dateVars, scanVars, bookVars, runVars>>
    \/ ParseRaw /\ UNCHANGED <<dateVars, scanVars, bookVars, runVars>>

InitTime == IdleDate /\ StartTime /\ IdleScan /\ IdleBook /\ IdleRun

SpecTime == InitTime /\ [][NextTime]_vars

NextScan == FindTeeTimeSlots /\ UNCHANGED <<dateVars, timeVars, bookVars, runVars>>

InitScan == IdleDate /\ IdleTime /\ StartScan /\ IdleBook /\ IdleRun

SpecScan == InitScan /\ [][NextScan]_vars

nonBookVars == <<dateVars, timeVars, scanVars, runVars>>

NextBook ==
    \/ LoopHead /\ UNCHANGED nonBookVars
    \/ NavigateToTeeSheet /\ UNCHANGED nonBookVars
    \/ ScanPage /\ UNCHANGED nonBookVars
    \/ AbEntry /\ UNCHANGED nonBookVars
    \/ AbForm /\ UNCHANGED nonBookVars
    \/ AbElement /\ UNCHANGED nonBookVars
    \/ AbAfter /\ UNCHANGED nonBookVars
    \/ AbPlayer /\ UNCHANGED nonBookVars
    \/ AbFinal /\ UNCHANGED nonBookVars
    \/ AbConfirm /\ UNCHANGED nonBookVars
    \/ AbExcept /\ UNCHANGED nonBookVars
    \/ AfterAttempt /\ UNCHANGED nonBookVars
    \/ NoSlots /\ UNCHANGED nonBookVars
    \/ RetryOrFail /\ UNCHANGED nonBookVars
    \/ NbpDirect /\ UNCHANGED nonBookVars
    \/ NbpAlternate /\ UNCHANGED nonBookVars
    \/ NbpFallback /\ UNCHANGED nonBookVars
    \/ NbpLink /\ UNCHANGED nonBookVars
    \/ NbpForms /\ UNCHANGED nonBookVars
    \/ NbpExcept /\ UNCHANGED nonBookVars
    \/ AfterNbp /\ UNCHANGED nonBookVars
    \/ Handler /\ UNCHANGED nonBookVars

InitBook == IdleDate /\ IdleTime /\ IdleScan /\ StartBook /\ IdleRun

SpecBook == InitBook /\ [][NextBook]_vars

idleVars == <<dateVars, timeVars, scanVars>>

NextRun ==
    \/ LoginStart /\ UNCHANGED <<idleVars, bookVars>>
    \/ Launch /\ UNCHANGED <<idleVars, bookVars>>
    \/ NewContext /\ UNCHANGED <<idleVars, bookVars>>
    \/ GotoLogin /\ UNCHANGED <<idleVars, bookVars>>
    \/ WaitUsername /\ UNCHANGED <<idleVars, bookVars>>
    \/ FillAndSubmit /\ UNCHANGED <<idleVars, bookVars>>
    \/ Settle /\ UNCHANGED <<idleVars, bookVars>>
    \/ CheckLogin /\ UNCHANGED <<idleVars, bookVars>>
    \/ LoginHandler /\ UNCHANGED <<idleVars, bookVars>>
    \/ LoginOuter /\ UNCHANGED <<idleVars, bookVars>>
    \/ MainCheckLogin /\ UNCHANGED <<idleVars, bookVars>>
    \/ MainExcept /\ UNCHANGED <<idleVars, bookVars>>
    \/ MainFinally /\ UNCHANGED <<idleVars, bookVars>>
    \/ MainBeforeBooking /\ UNCHANGED idleVars
    \/ MainAfterBooking /\ UNCHANGED idleVars
    \/ LoopHead /\ UNCHANGED nonBookVars
    \/ NavigateToTeeSheet /\ UNCHANGED nonBookVars
    \/ ScanPage /\ UNCHANGED nonBookVars
    \/ AbEntry /\ UNCHANGED nonBookVars
    \/ AbForm /\ UNCHANGED nonBookVars
    \/ AbElement /\ UNCHANGED nonBookVars
    \/ AbAfter /\ UNCHANGED nonBookVars
    \/ AbPlayer /\ UNCHANGED nonBookVars
    \/ AbFinal /\ UNCHANGED nonBookVars
    \/ AbConfirm /\ UNCHANGED nonBookVars
    \/ AbExcept /\ UNCHANGED nonBookVars
    \/ AfterAttempt /\ UNCHANGED nonBookVars
    \/ NoSlots /\ UNCHANGED nonBookVars
    \/ RetryOrFail /\ UNCHANGED nonBookVars
    \/ NbpDirect /\ UNCHANGED nonBookVars
    \/ NbpAlternate /\ UNCHANGED nonBookVars
    \/ NbpFallback /\ UNCHANGED nonBookVars
    \/ NbpLink /\ UNCHANGED nonBookVars
    \/ NbpForms /\ UNCHANGED nonBookVars
    \/ NbpExcept /\ UNCHANGED nonBookVars
    \/ AfterNbp /\ UNCHANGED nonBookVars
    \/ Handler /\ UNCHANGED nonBookVars

\* main reads DRY_RUN and MAX_RETRIES from the environment (lines 27-30)
InitRun ==
    /\ IdleDate /\ IdleTime /\ IdleScan
    /\ StartRun
    /\ dry_run \in BOOLEAN
    /\ max_retries \in 0..MaxRetries
    /\ attempt = 0
    /\ bk_pc = "idle"
    /\ bk_result = "pending"
    /\ slot = "none"
    /\ ab_caller = "none"
    /\ ab_ret = FALSE
    /\ counts = ZeroCounts
    /\ hist = NoHistory

SpecRun == InitRun /\ [][NextRun]_vars

\* ------------------------------------------------------------------------
\* Properties
\* ------------------------------------------------------------------------

\* ---- C1 (as stated): retry bound.  In live mode, when every scan returns
\* zero slots and nothing raises, book_tee_time has navigated to the
\* schedule view exactly max_retries + 1 times when it returns, and it
\* returns failure.
AllScansEmpty ==
    /\ bk_pc = "returned"
    /\ ~dry_run
    /\ ~hist.exc_seen
    /\ ~hist.slots_seen

C1_RetryBound_AsStated ==
    AllScansEmpty =>
        /\ counts.nav_sheet = max_retries + 1
        /\ bk_result = "false"

\* ---- C1 (amended): retry bound.  In live mode, when every scan returns
\* zero slots and nothing raises, the loop of book_tee_time has run exactly
\* max_retries + 1 iterations, each with one navigation to the schedule view
\* and one scan, and returns failure; the booking-page navigation done
\* between attempts adds at most one schedule-view navigation per retry, so
\* the total lies in max_retries + 1 .. 2 * max_retries + 1.
C1_RetryBound ==
    AllScansEmpty =>
        /\ counts.loop_navs = max_retries + 1
        /\ counts.scans = max_retries + 1
        /\ counts.nav_booking = max_retries
        /\ counts.nav_sheet >= max_retries + 1
        /\ counts.nav_sheet <= 2 * max_retries + 1
        /\ bk_result = "false"

C1_Witness ==
    /\ AllScansEmpty
    /\ max_retries = 2
    /\ counts.loop_navs = 3
    /\ counts.nav_sheet = 5
    /\ bk_result = "false"

\* ---- C2: dry-run non-destructiveness.  With dry_run true attempt_booking
\* never reaches the final submit step: the final booking submit control is
\* never looked for nor clicked, whatever the candidate and the page do.
C2_DryRunNeverSubmits ==
    dry_run =>
        /\ counts.final_clicks = 0
        /\ bk_pc \notin {"ab_final", "ab_confirm"}

C2_Witness ==
    /\ dry_run
    /\ bk_pc = "ab_returned"
    /\ ab_ret = TRUE
    /\ slot = "element"
    /\ counts.marks = 1
    /\ counts.final_clicks = 0

\* ---- C3: guaranteed release.  Whenever a run in which the browser was
\* launched has returned, the browser has been closed and the playwright
\* driver stopped.
C3_GuaranteedRelease ==
    (run_pc = "returned" /\ res.browser # "none") =>
        /\ res.browser = "closed"
        /\ res.pw = "stopped"

\* ---- C4: date-window exclusion.  With a window of 7 days and a valid
\* target weekday w, the result is the date today + d, where d = (w - t) mod 7
\* and d = 7 when w = t; it is never today's date.
ExpectedDaysAhead(t, w) == IF w = t THEN 7 ELSE (w - t + 7) % 7

TargetWeekdayNumber == CHOOSE w \in 0..6 : DayNames[w + 1] = target_day

C4_DateWindowExclusion ==
    (date_pc = "done" /\ max_days_ahead = 7 /\ InDayMap(target_day)) =>
        /\ date_result = FormatDate(today + ExpectedDaysAhead(today % 7, TargetWeekdayNumber))
        /\ date_result # FormatDate(today)

C4_Witness ==
    /\ date_pc = "done"
    /\ max_days_ahead = 7
    /\ target_day = "Sunday"
    /\ today % 7 = 6
    /\ date_result = FormatDate(today + 7)

\* ---- C5: window boundary.  The result is None exactly when the computed
\* days-ahead is strictly greater than the window; when they are equal the
\* date is returned.
ComputedDaysAhead ==
    LET w == IF InDayMap(target_day) THEN TargetWeekdayNumber ELSE 6
    IN  ExpectedDaysAhead(today % 7, w)

C5_WindowBoundary ==
    date_pc = "done" =>
        /\ (date_result = NoDate) <=> (ComputedDaysAhead > max_days_ahead)
        /\ (ComputedDaysAhead = max_days_ahead) =>
               date_result = FormatDate(today + ComputedDaysAhead)

C5_Witness ==
    /\ date_pc = "done"
    /\ ComputedDaysAhead = max_days_ahead
    /\ max_days_ahead = 3
    /\ date_result = FormatDate(today + 3)

\* ---- C6: time parsing round trip.  Parsing the "H:MM AM/PM" rendering of
\* a minute value m in 0..1439 yields m.
C6_RoundTrip ==
    (time_m # None /\ time_out["spaced"] # Unset) => time_out["spaced"] = time_m

C6_Witness ==
    /\ time_m = 0
    /\ time_out["spaced"] = 0

\* ---- C7: format tolerance.  For every time of day the spaced 12-hour form,
\* the unspaced 12-hour form and the 24-hour form parse to the same minutes
\* value, the time of day itself; for 2 PM all three give 840.  The formats
\* are tried in that order and the first match wins: the spaced form is
\* returned by the first trial, the unspaced by the second, the 24-hour form
\* by the third.
AllFormsParsed == time_m # None /\ \A f \in Forms : time_out[f] # Unset

C7_FormatTolerance ==
    AllFormsParsed =>
        /\ time_out["spaced"] = time_out["unspaced"]
        /\ time_out["unspaced"] = time_out["h24"]
        /\ time_out["h24"] = time_m
        /\ time_out["h24"] # None
        /\ time_fmt["spaced"] = 1
        /\ time_fmt["unspaced"] = 2
        /\ time_fmt["h24"] = 3

C7_Witness ==
    /\ AllFormsParsed
    /\ time_m = 840
    /\ \A f \in Forms : time_out[f] = 840

\* ---- C8: unparsable handling.  A bookable row whose time text parses to
\* None is not dropped, gets the sentinel distance 9999, and stands in the
\* scan result after every candidate whose time parsed.
SheetScanned == scan_pc = "done" /\ scan_view = "sheet"

BookableRows ==
    {i \in 1..Len(page_forms) : page_forms[i].label # NoLabel /\ IsBookable(page_forms[i])}

C8_UnparsableHandling ==
    SheetScanned =>
        /\ \A i \in BookableRows :
              \E k \in 1..Len(available_slots) : available_slots[k].form_id = i
        /\ \A k \in 1..Len(available_slots) :
              available_slots[k].minutes = None =>
                  /\ available_slots[k].distance = Sentinel
                  /\ \A j \in 1..Len(available_slots) :
                        available_slots[j].minutes # None => j < k

\* ---- C9: distance assignment.  Every candidate whose time parses to a
\* minutes value (0 included) has distance |minutes - target minutes|; only
\* candidates whose time is unparsable have the sentinel 9999.
C9_DistanceAssignment ==
    SheetScanned =>
        \A k \in 1..Len(available_slots) :
            LET c == available_slots[k]
            IN  /\ c.minutes # None => c.distance = Abs(c.minutes - Strptime24(scan_target))
                /\ c.distance = Sentinel => c.minutes = None

\* ---- C10: ranking.  The scan result is sorted ascending by distance, and
\* candidates of equal distance keep their discovery order.
C10_Ranking ==
    SheetScanned =>
        /\ Len(available_slots) = Cardinality(BookableRows)
        /\ \A j, k \in 1..Len(available_slots) :
              j < k =>
                  /\ available_slots[j].distance <= available_slots[k].distance
                  /\ available_slots[j].distance = available_slots[k].distance =>
                         available_slots[j].form_id < available_slots[k].form_id

C10_Witness ==
    /\ scan_pc = "done"
    /\ scan_target = <<"0", "7", ":", "1", "5">>
    /\ Len(page_forms) = 4
    /\ Len(available_slots) = 4
    /\ [k \in 1..4 |-> Candidate(page_forms[k], k, 435).distance] = <<5, 0, 3, 0>>
    /\ [k \in 1..4 |-> available_slots[k].distance] = <<0, 0, 3, 5>>
    /\ [k \in 1..4 |-> available_slots[k].form_id] = <<2, 4, 3, 1>>

\* ---- C11: schedule-view bookability.  The scan returns a candidate for a
\* row if and only if the row has a time label and either holds a submit or
\* booking control or has at least one slot box that is neither taken (Green),
\* blocked (Grey) nor an event and carries no occupant text; each such row is
\* returned once.  For the page of the rows "7:00 AM" (occupied, no control)
\* and "7:30 AM" (empty, submit control) and the target 07:15 the result is
\* exactly one candidate, "7:30 AM", at distance 15.
RowHasControl(i) == page_forms[i].control = "submit" \/ page_forms[i].control = "book_button"

RowHasFreeBox(i) ==
    \E b \in 1..Len(page_forms[i].boxes) :
        /\ page_forms[i].boxes[b].cls \notin {"Green", "Grey", "Event"}
        /\ page_forms[i].boxes[b].text = FALSE

ScenarioPage ==
    << Row(Txt700, "none", <<Box("Open", TRUE), Box("Event", FALSE)>>),
       Row(Txt730, "submit", <<Box("Open", FALSE)>>) >>

LoginReturned == login.ret # "pending"

C12_LoginOrSemantics ==
    (credentials = "real" /\ login.submitted /\ login.checked /\ LoginReturned) =>
        (login.ret = "session") <=> (login.url_ok \/ login.marker \/ login.form_absent)

\* ---- C14: a missing credential is fatal before any browser action.  When
\* the username or the password is absent, playwright is never started, no
\* browser is launched, no page is created or navigated, login returns
\* failure, and the run makes no booking attempt.
C14_MissingCredentialFatal ==
    (credentials \in {"missing_username", "missing_password"}) =>
        /\ res = NoResources
        /\ ~login.page /\ ~login.navigated /\ ~login.entered /\ ~login.submitted
        /\ login.ret \in {"pending", "none"}
        /\ (run_pc # "login_start") => login.ret = "none"
        /\ bk_pc = "idle"
        /\ counts = ZeroCounts

C14_Witness ==
    /\ credentials = "missing_password"
    /\ run_pc = "returned"
    /\ login.ret = "none"
    /\ res = NoResources
    /\ bk_pc = "idle"

\* ---- C15: the sentinel credential pair is always successful.  Whenever
\* login_to_club_caddie has a page for the sentinel pair and has returned, it
\* has returned the session, whatever the site did.
C15_SentinelAlwaysSucceeds ==
    (credentials = "sentinel" /\ login.page /\ LoginReturned) => login.ret = "session"

\* ---- C13: navigate_to_booking_page returns false only after all four
\* strategies have been attempted and have failed: the direct URL, the
\* alternate URL, the "Book a Member Tee Time" link and the submission of a
\* booking form; an exception of the direct URL does not skip the alternate
\* URL, and a failure to reach the schedule view does not skip the link and
\* the form.
C13_AllStrategiesExhausted ==
    (bk_pc = "nbp_returned" /\ hist.nbp_ret = "false") =>
        hist.nbp_tried = {"direct", "alternate", "link", "form"}

\* ---- C16: the dry run performs all discovery steps before it stops.
\* Whenever attempt_booking returns success in dry-run mode, it has reached
\* the booking form or modal (where the party-size control is looked for),
\* has marked the element or form it would submit, and has not clicked the
\* final booking control.
C16_DryRunFullFlow ==
    (dry_run /\ bk_pc = "ab_returned" /\ ab_ret) =>
        /\ hist.form_reached
        /\ counts.marks >= 1
        /\ counts.final_clicks = 0

\* ---- C17: calculate_available_dates(N) returns exactly N + 1 entries, for
\* the days-ahead 0..N in increasing order; entry i is the date today + i
\* with its weekday name; the first entry is today, the last today + N.
DayOfYear(date) == DaysBeforeMonth[date[2]] + date[3] - 1

NextDayName(name) ==
    CASE name = "Monday" -> "Tuesday"
      [] name = "Tuesday" -> "Wednesday"
      [] name = "Wednesday" -> "Thursday"
      [] name = "Thursday" -> "Friday"
      [] name = "Friday" -> "Saturday"
      [] name = "Saturday" -> "Sunday"
      [] name = "Sunday" -> "Monday"

C17_AvailableDates ==
    dates_pc = "done" =>
        /\ Len(available_dates) = max_days_ahead + 1
        /\ \A k \in 1..Len(available_dates) :
              /\ available_dates[k].days_ahead = k - 1
              /\ available_dates[k].date[1] = 2024
              /\ available_dates[k].date[2] \in 1..12
              /\ available_dates[k].date[3] >= 1
              /\ DaysBeforeMonth[available_dates[k].date[2]] + available_dates[k].date[3]
                     <= DaysBeforeMonth[available_dates[k].date[2] + 1]
              /\ DayOfYear(available_dates[k].date) = today + (k - 1)
              /\ k > 1 => available_dates[k].weekday = NextDayName(available_dates[k - 1].weekday)
        /\ available_dates[1].weekday = DayNames[((today - FirstToday) % 7) + 1]
        /\ available_dates[1].date = FormatDate(today)
        /\ available_dates[Len(available_dates)].days_ahead = max_days_ahead
        /\ DayOfYear(available_dates[Len(available_dates)].date) = today + max_days_ahead

C17_Witness ==
    /\ dates_pc = "done"
    /\ max_days_ahead = 7
    /\ today = FirstToday + 2
    /\ Len(available_dates) = 8
    /\ available_dates[1] = [date |-> <<2024, 2, 28>>, weekday |-> "Wednesday", days_ahead |-> 0]
    /\ available_dates[3] = [date |-> <<2024, 3, 1>>, weekday |-> "Friday", days_ahead |-> 2]
    /\ available_dates[8] = [date |-> <<2024, 3, 6>>, weekday |-> "Wednesday", days_ahead |-> 7]

\* ---- C18: navigate_to_tee_sheet never swallows a navigation failure.
\* Whenever a call of it has returned to its caller (book_tee_time goes on to
\* the scan, navigate_to_booking_page to the link strategy), the page load of
\* that call had succeeded: a failed load always raises.
C18_NavigationFailureRaises ==
    (bk_pc \in {"scan", "nbp_link"}) => hist.nav_load = "ok"

C18_Witness ==
    /\ bk_pc = "handler"
    /\ hist.nav_load = "failed"
    /\ counts.nav_sheet = 1
    /\ counts.scans = 0

\* ---- C19: no exception raised during an iteration of book_tee_time is
\* propagated to its caller: book_tee_time always returns true or false.
C19_NoPropagation ==
    /\ bk_result # "raised"
    /\ (bk_pc = "returned") => bk_result \in {"true", "false"}

\* ---- C20: an exception raised during the slot extraction makes
\* find_tee_time_slots_on_tee_sheet return an empty list: the call never
\* raises, and the orchestrator goes on as after a scan that found no slots.
C20_ScanErrorIsZeroSlots ==
    /\ hist.scan_exc # "propagated"
    /\ (hist.scan_exc = "caught" /\ counts.ab_calls = 0 /\ bk_pc # "returned") =>
           bk_pc \in {"noslots", "retry_or_fail", "nbp_direct", "nbp_alternate",
                      "nbp_fallback", "nbp_link", "nbp_forms", "nbp_except",
                      "nbp_returned", "handler"}

\* ---- C25: whenever no target date is supplied, the chosen target date
\* lies in the booking window [today, today + window]: it is the next
\* occurrence of the target weekday when that occurrence is within the
\* window, and otherwise the furthest date, today + window.
ChosenOffset == DayOfYear(chosen.date) - today

C25_ChosenDateInWindow ==
    chosen # NoChoice =>
        /\ ChosenOffset \in 0..max_days_ahead
        /\ IF ComputedDaysAhead <= max_days_ahead
           THEN /\ ChosenOffset = ComputedDaysAhead
                /\ chosen.from = "target_day"
                /\ InDayMap(target_day) => WeekdayName(today + ChosenOffset) = target_day
           ELSE /\ ChosenOffset = max_days_ahead
                /\ chosen.from = "furthest"

C25_Witness ==
    /\ chosen.from = "furthest"
    /\ max_days_ahead = 3
    /\ target_day = "Sunday"
    /\ today = FirstToday
    /\ chosen.date = <<2024, 2, 29>>

\* ---- C30: in calculate_next_available_date the computed days-ahead lies
\* in 1..7 for every pair of today's weekday and target weekday, so for every
\* window of 7 days or more the function never returns None and the
\* furthest-date fallback of its callers is not taken.
TargetWeekdayOrSunday == IF InDayMap(target_day) THEN DAY_MAP(target_day) ELSE 6

C30_DaysAheadRange ==
    /\ DaysUntilTarget(today, TargetWeekdayOrSunday) \in 1..7
    /\ \A w \in 0..6 : DaysUntilTarget(today, w) \in 1..7
    /\ (date_pc = "done" /\ max_days_ahead >= 7) => date_result # NoDate
    /\ (chosen # NoChoice /\ max_days_ahead >= 7) => chosen.from = "target_day"

C30_Witness ==
    /\ date_pc = "done"
    /\ chosen.from = "target_day"
    /\ max_days_ahead = 7
    /\ Weekday(today) = 3
    /\ target_day = "Thursday"
    /\ date_result = FormatDate(today + 7)
    /\ chosen.date = date_result

InAttempt ==
    bk_pc \in {"ab_entry", "ab_form", "ab_element", "ab_after", "ab_player",
               "ab_final", "ab_confirm", "ab_except", "ab_returned"}

OneBestCandidate ==
    /\ (InAttempt /\ ab_caller = "best") =>
           /\ hist.found >= 1
           /\ hist.picked = 1
    /\ counts.ab_calls <= counts.scans
    /\ (bk_result = "true") => (bk_pc = "returned" /\ ab_ret)

SuccessEndsLoop ==
    (bk_pc = "ab_returned" /\ ab_ret) =>
        /\ bk_pc' = "returned"
        /\ bk_result' = "true"
        /\ counts' = counts
        /\ attempt' = attempt

C22_TopCandidateThenStop == [](OneBestCandidate) /\ [][SuccessEndsLoop]_vars

C22_Witness ==
    /\ bk_pc = "returned"
    /\ bk_result = "true"
    /\ ab_caller = "best"
    /\ hist.found = 2
    /\ hist.picked = 1
    /\ attempt = 1
    /\ counts.ab_calls = 2
    /\ counts.scans = 2

C27_AtMostOneFinalSubmit ==
    ~dry_run => counts.final_clicks <= 1

\* ---- C28: book_tee_time always ends with a boolean: its loop body runs at
\* most max_retries + 1 times and the call then returns true or false.
C28_BoundedLoopBooleanResult ==
    /\ attempt <= max_retries + 1
    /\ counts.loop_navs <= max_retries + 1
    /\ (bk_pc = "returned") => (bk_result = "true" \/ bk_result = "false")

\* ---- C29: every slot scan of book_tee_time is preceded, in the same
\* iteration and with no other navigation in between, by a navigation to the
\* schedule view; the booking-page navigation done between retries is never
\* followed by a scan of that booking page.
C29_ScanFollowsSheetNavigation ==
    /\ (bk_pc = "scan") =>
           /\ hist.last_nav = "sheet"
           /\ hist.nav_load = "ok"
           /\ counts.loop_navs = attempt + 1
           /\ counts.scans < counts.loop_navs
    /\ counts.scans <= counts.loop_navs
    /\ (hist.last_nav \in {"booking", "other", "root"}) => bk_pc # "scan"

C29_Witness ==
    /\ bk_pc = "scan"
    /\ attempt = 1
    /\ counts.nav_booking = 1
    /\ counts.nbp_submits = 1
    /\ hist.last_nav = "sheet"
    /\ counts.scans = 1

\* ---- C24: in the booking view the three detection strategies are nested:
\* the button strategy runs only if the time-card strategy produced no
\* candidate, the clickable-element strategy only if both produced none; the
\* returned list holds the candidates of exactly one strategy, all of them.
BookingScanned == scan_pc = "done" /\ scan_view = "booking"

CardHits ==
    {i \in 1..Len(page_items.cards) :
        /\ page_items.cards[i].time # NoLabel
        /\ page_items.cards[i].button \in {"book", "reserve"}}

ButtonHits ==
    {i \in 1..Len(page_items.buttons) :
        /\ page_items.buttons[i].text \in {"book", "reserve"}
        /\ page_items.buttons[i].near # NoLabel}

ElemHits ==
    {i \in 1..Len(page_items.elems) :
        page_items.elems[i].time # NoLabel /\ page_items.elems[i].likely}

ReturnedOf(strategy) ==
    {available_slots[k].idx : k \in {j \in 1..Len(available_slots) :
                                        available_slots[j].strategy = strategy}}

ExpectedStrategy ==
    IF CardHits # {} THEN 1
    ELSE IF ButtonHits # {} THEN 2
    ELSE IF ElemHits # {} THEN 3
    ELSE 0

C24_NestedStrategies ==
    BookingScanned =>
        /\ \A j, k \in 1..Len(available_slots) :
              available_slots[j].strategy = available_slots[k].strategy
        /\ \A k \in 1..Len(available_slots) :
              available_slots[k].strategy = ExpectedStrategy
        /\ (available_slots = <<>>) <=> (ExpectedStrategy = 0)
        /\ ExpectedStrategy = 1 =>
              (ReturnedOf(1) = CardHits /\ Len(available_slots) = Cardinality(CardHits))
        /\ ExpectedStrategy = 2 =>
              (ReturnedOf(2) = ButtonHits /\ Len(available_slots) = Cardinality(ButtonHits))
        /\ ExpectedStrategy = 3 =>
              (ReturnedOf(3) = ElemHits /\ Len(available_slots) = Cardinality(ElemHits))

C24_Witness ==
    /\ BookingScanned
    /\ CardHits = {}
    /\ Len(page_items.cards) = 2
    /\ ButtonHits = {1, 2}
    /\ ElemHits # {}
    /\ Len(available_slots) = 2
    /\ available_slots[1].strategy = 2
    /\ available_slots[2].strategy = 2

\* ---- C26: timeouts are recoverable except where defined fatal.  In login,
\* when the username field never becomes visible, login fails and no
\* credential was entered or submitted; when the network-idle wait after the
\* submit timed out, login is not aborted: the success checks still run and
\* their signals decide what login returns.
UsernameNeverVisible ==
    credentials \in {"real", "sentinel"} /\ login.navigated /\ ~login.entered /\ LoginReturned

IdleWaitTimedOut ==
    credentials = "real" /\ login.submitted /\ login.idle_timeout /\ login.checked /\ LoginReturned

C26_TimeoutsRecoverable ==
    /\ UsernameNeverVisible => (login.ret = "none" /\ ~login.submitted)
    /\ IdleWaitTimedOut =>
          ((login.ret = "session") <=> (login.url_ok \/ login.marker \/ login.form_absent))

====
